---------------------------- MODULE Spec2Model ----------------------------
(***************************************************************************)
(* A model of the sniper trading bot: the signal evaluator                 *)
(* TradingStrategy.execute_strategy_cycle (src/trading_strategy.py) and    *)
(* the cycle loop of run_bot (src/main_bot.py) with its three phases:      *)
(* evaluation of every symbol, application of the exits and allocation of  *)
(* the entries, followed by the conditional save of the ledger.            *)
(*                                                                         *)
(* Numbers.  The program computes on IEEE doubles.  The model computes on  *)
(* integers: prices are whole quote units, the fractions of settings.py    *)
(* are kept in percent (0.05 is 5) and a comparison such as                *)
(* price <= entry * (1 - 0.05) is the cross-multiplied                     *)
(* 100 * price <= entry * (100 - 5).  The price sets used below hold no    *)
(* value for which the double comparison and the exact one differ, and the *)
(* (gain, loss) pairs are ones whose double RSI is exactly the integer the *)
(* model computes.  NaN is the value NaN below; every ordered comparison   *)
(* with it is false, as for a double.                                      *)
(***************************************************************************)
EXTENDS Integers, Sequences, FiniteSets, TLC

(***************************************************************************)
(* settings.py                                                             *)
(***************************************************************************)
TRADE_SYMBOLS == <<"BTCUSDT", "ETHUSDT", "LTCUSDT">>
MAX_OPEN_POSITIONS == 5
MIN_TRADE_AMOUNT_USDT == 10
TRADE_AMOUNT_USDT == 100
KLINE_LIMIT == 1000
SMA_SLOW_PERIOD == 20
RSI_PERIOD == 14
OVERBOUGHT_RSI == 70
OVERSOLD_RSI == 30
\* 0.05, 0.1 and 0.05 in settings.py: kept in percent.
STOP_LOSS_PERCENT == 5
TAKE_PROFIT_PERCENT == 10
TRAILING_STOP_PERCENT == 5
\* The literal 26 of min_candles_needed (the slow span of the MACD).
MACD_SLOW_SPAN == 26

(***************************************************************************)
(* Bounds of the model.                                                    *)
(***************************************************************************)
\* The longest price history handed to the evaluator on its own.
MaxBars == 30
\* How many times in a row the evaluator is called on the same inputs.
MaxCalls == 2
\* How many cycles of run_bot are followed.
MaxCycles == 2
\* How many bot processes are started on the same directory.
MaxProcs == 3
\* How many calls are made on one Backtester.
MaxBtCalls == 3
\* The bar interval KLINE_INTERVAL = '1m' in milliseconds: the open time of
\* the last bar seen in cycle k is k * MsPerBar.
MsPerBar == 60000

(***************************************************************************)
(* Values.                                                                 *)
(***************************************************************************)
\* The double NaN: a value outside 0..100 that no ordered comparison accepts.
NaN == 0 - 1
\* get_account_balance returning None.
NoBalance == 0 - 1
\* No position is open for the symbol.
NoPosition == 0 - 1
\* new_position_data = None / a present value, as a sequence of length 0 / 1.
NoSignal == <<>>

Max(a, b) == IF a >= b THEN a ELSE b
Min(a, b) == IF a <= b THEN a ELSE b

\* Ordered comparisons of doubles: false as soon as one side is NaN.
FLe(a, b) == a # NaN /\ b # NaN /\ a <= b
FGe(a, b) == a # NaN /\ b # NaN /\ a >= b
FGt(a, b) == a # NaN /\ b # NaN /\ a > b

SymbolSet == {TRADE_SYMBOLS[k] : k \in 1..Len(TRADE_SYMBOLS)}

(***************************************************************************)
(* TradingStrategy: the indicators of the last bar.                        *)
(***************************************************************************)
\* _calculate_rsi on the last bar.  gain and loss are the sums of the
\* positive and of the negated negative close deltas over the RSI window
\* (the rolling means divide both by RSI_PERIOD).  rs = gain / loss is NaN
\* for 0/0 and +inf for x/0, so the RSI is NaN on a flat window and 100 on a
\* window without a loss; otherwise 100 - 100 / (1 + rs).
CalculateRSI(gain, loss) ==
    IF loss = 0
    THEN IF gain = 0 THEN NaN ELSE 100
    ELSE 100 - (100 * loss) \div (gain + loss)

\* min_candles_needed
MinCandlesNeeded == Max(Max(SMA_SLOW_PERIOD, RSI_PERIOD), MACD_SLOW_SPAN) + 1

\* The four exit conditions, on the position's entry price, the updated
\* current_high, the current price and the RSI of the last bar.
StopLossHit(entry_price, current_price) ==
    100 * current_price <= entry_price * (100 - STOP_LOSS_PERCENT)

TakeProfitHit(entry_price, current_price) ==
    100 * current_price >= entry_price * (100 + TAKE_PROFIT_PERCENT)

TrailingStopHit(current_high, current_price) ==
    100 * current_price <= current_high * (100 - TRAILING_STOP_PERCENT)

RSIOverboughtHit(rsi) == FGe(rsi, OVERBOUGHT_RSI)

\* The dictionary built for a buy signal.
BuySignal(cpd, rsi) ==
    [symbol |-> cpd.symbol, price |-> cpd.price,
     timestamp |-> cpd.timestamp, score |-> 100 - rsi]

\* Line 123: is a position open for the symbol?
HasOpenPosition_Never(current_positions, symbol) == FALSE

HasOpenPosition(current_positions, symbol) ==
    symbol \in DOMAIN current_positions

\* Lines 131-155: the exit rules, each returning at once when it holds.  The
\* value is the reason appended to positions_to_close, "" when none holds.
ExitReason_TakeProfitFirst(entry_price, current_high, current_price, rsi) ==
    IF TakeProfitHit(entry_price, current_price) THEN "Take-Profit atingido"
    ELSE IF StopLossHit(entry_price, current_price) THEN "Stop-Loss atingido"
    ELSE IF TrailingStopHit(current_high, current_price)
         THEN "Trailing Stop atingido"
    ELSE IF RSIOverboughtHit(rsi) THEN "RSI Sobrecomprado"
    ELSE ""

ExitReason(entry_price, current_high, current_price, rsi) ==
    IF StopLossHit(entry_price, current_price) THEN "Stop-Loss atingido"
    ELSE IF TakeProfitHit(entry_price, current_price) THEN "Take-Profit atingido"
    ELSE IF TrailingStopHit(current_high, current_price)
         THEN "Trailing Stop atingido"
    ELSE IF RSIOverboughtHit(rsi) THEN "RSI Sobrecomprado"
    ELSE ""

\* Lines 158-194: the entry rules as the code nests them.  ind is the last
\* bar's row of the indicator columns (MACD_prev and Signal_prev are
\* iloc[-2]).
\*   if SMA_Fast > SMA_Slow:            if RSI <= overbought: signal
\*   elif RSI <= oversold:              if SMA_Fast > SMA_Slow: signal
\*   elif MACD cross-up and RSI <= overbought: signal
\* The value is the branch whose assignment sets new_position_data (the one
\* whose "Sinal de compra" line is logged): 1 for line 164, 2 for line 176,
\* 3 for line 188, 0 when none is executed.
\* (EntryBranch_OversoldFirst tests the oversold rule before the trend rule.)
EntryBranch_OversoldFirst(ind, rsi) ==
    IF FLe(rsi, OVERSOLD_RSI)
    THEN IF FGt(ind.SMA_Fast, ind.SMA_Slow) THEN 2 ELSE 0
    ELSE IF FGt(ind.SMA_Fast, ind.SMA_Slow)
    THEN IF FLe(rsi, OVERBOUGHT_RSI) THEN 1 ELSE 0
    ELSE IF /\ FGt(ind.MACD, ind.Signal)
            /\ FLe(ind.MACD_prev, ind.Signal_prev)
            /\ FLe(rsi, OVERBOUGHT_RSI)
         THEN 3 ELSE 0

EntryBranch(ind, rsi) ==
    IF FGt(ind.SMA_Fast, ind.SMA_Slow)
    THEN IF FLe(rsi, OVERBOUGHT_RSI) THEN 1 ELSE 0
    ELSE IF FLe(rsi, OVERSOLD_RSI)
    THEN IF FGt(ind.SMA_Fast, ind.SMA_Slow) THEN 2 ELSE 0
    ELSE IF /\ FGt(ind.MACD, ind.Signal)
            /\ FLe(ind.MACD_prev, ind.Signal_prev)
            /\ FLe(rsi, OVERBOUGHT_RSI)
         THEN 3 ELSE 0

\* Whether new_position_data is set.
EntrySignal_NoRSICheck(ind, rsi) ==
    IF FGt(ind.SMA_Fast, ind.SMA_Slow) THEN TRUE
    ELSE IF FLe(rsi, OVERSOLD_RSI) THEN FGt(ind.SMA_Fast, ind.SMA_Slow)
    ELSE /\ FGt(ind.MACD, ind.Signal)
         /\ FLe(ind.MACD_prev, ind.Signal_prev)
         /\ FLe(rsi, OVERBOUGHT_RSI)

EntrySignal_StrictRSI(ind, rsi) ==
    IF FGt(ind.SMA_Fast, ind.SMA_Slow)
    THEN rsi # NaN /\ rsi < OVERBOUGHT_RSI
    ELSE IF FLe(rsi, OVERSOLD_RSI) THEN FGt(ind.SMA_Fast, ind.SMA_Slow)
    ELSE /\ FGt(ind.MACD, ind.Signal)
         /\ FLe(ind.MACD_prev, ind.Signal_prev)
         /\ FLe(rsi, OVERBOUGHT_RSI)

EntrySignal(ind, rsi) == EntryBranch(ind, rsi) # 0

\* Lines 126-129: the new current_high of the position.
\* (UpdatedHigh_Latest stores the current price.)
UpdatedHigh_Latest(high, current_price) == current_price

UpdatedHigh(high, current_price) == Max(high, current_price)

\* Lines 134-155: an exit is reported by the returned list only; the
\* position stays in current_positions (run_bot deletes it at line 148).
\* (LedgerOnExit_Deleted deletes it in the evaluator.)
LedgerOnExit_Deleted(positions, symbol) ==
    [s \in DOMAIN positions \ {symbol} |-> positions[s]]

LedgerOnExit(positions, symbol) == positions

\* Line 103: too few bars for the indicators.
InsufficientData_NoPlusOne(n) == n < MinCandlesNeeded - 1

InsufficientData(n) == n < MinCandlesNeeded

\* execute_strategy_cycle.  cpd is current_price_data; hist is the price
\* history: its number of bars n and, when n suffices, the indicator row ind
\* of its last bar with the RSI window's gain and loss.  The value holds the
\* returned pair and the dictionary current_positions as the call leaves it
\* (the call mutates the position's current_high in place).  The test of
\* line 115 compares doubles with None by identity and is never true.
ExecuteStrategyCycle(current_positions, cpd, hist) ==
    LET symbol == cpd.symbol
        current_price == cpd.price
        Return(closes, signal, positions) ==
            [positions_to_close |-> closes, new_position_data |-> signal,
             positions |-> positions]
    IN  IF InsufficientData(hist.n)
        THEN Return(<<>>, NoSignal, current_positions)
        ELSE
        LET rsi == CalculateRSI(hist.gain, hist.loss)
        IN  IF HasOpenPosition(current_positions, symbol)
            THEN LET position == current_positions[symbol]
                     entry_price == position.entry_price
                     current_high == UpdatedHigh(position.current_high,
                                                 current_price)
                     updated == [current_positions EXCEPT
                                   ![symbol].current_high = current_high]
                     reason == ExitReason(entry_price, current_high,
                                          current_price, rsi)
                 IN  IF reason # ""
                     THEN Return(<<<<symbol, reason>>>>, NoSignal,
                                 LedgerOnExit(updated, symbol))
                     ELSE Return(<<>>, NoSignal, updated)
            ELSE IF EntrySignal(hist.ind, rsi)
                 THEN Return(<<>>, <<BuySignal(cpd, rsi)>>, current_positions)
                 ELSE Return(<<>>, NoSignal, current_positions)

\* TradingStrategy._simulate_buy: the position of a new buy.  entry_time is
\* datetime.fromtimestamp(timestamp / 1000), kept in whole seconds.  The
\* fields bought_quantity, order_id and last_price_checked are written here
\* and read nowhere in the evaluator or in run_bot; they are left out.
SimulateBuy(symbol, price, timestamp, trade_amount) ==
    [entry_price |-> price, current_high |-> price,
     entry_time |-> timestamp \div 1000]

(***************************************************************************)
(* Inputs.                                                                 *)
(***************************************************************************)
\* (gain, loss) sums of an RSI window: flat (NaN), no loss (100), no gain (0)
\* and RSI 5, 20, 30, 45, 70, 75.
GainLossPairs ==
    {<<0, 0>>, <<5, 0>>, <<0, 5>>, <<1, 19>>, <<1, 4>>, <<3, 7>>,
     <<27, 33>>, <<7, 3>>, <<3, 1>>}

\* Rows of the indicator columns on the last bar: the fast average above,
\* at and below the slow one; the MACD above, at and below its signal line
\* on the last bar, and at or above it one bar earlier.
SMAPairs == {<<101, 100>>, <<100, 100>>, <<99, 100>>}
MACDPairs == {<<1, 0>>, <<0, 0>>, <<0, 1>>}
MACDPrevPairs == {<<0, 0>>, <<1, 0>>}
IndicatorRows ==
    {[SMA_Fast |-> sma[1], SMA_Slow |-> sma[2], MACD |-> m[1],
      Signal |-> m[2], MACD_prev |-> mp[1], Signal_prev |-> mp[2]] :
        sma \in SMAPairs, m \in MACDPairs, mp \in MACDPrevPairs}

\* Prices handed to the evaluator on its own; 0 is the degenerate price at
\* which the stop-loss and the take-profit thresholds coincide (it is drawn
\* for a position entered at 0 only).
EvalPrices == {0, 94, 100, 105}
\* Positions as a buy creates them and the evaluator updates them:
\* current_high >= entry_price.
EvalPositions ==
    {[entry_price |-> eh[1], current_high |-> eh[2], entry_time |-> 0] :
        eh \in {<<0, 0>>, <<94, 94>>, <<94, 100>>, <<100, 100>>,
                <<100, 105>>, <<105, 105>>}}
EvalBars == {MinCandlesNeeded - 1, MinCandlesNeeded, MaxBars}
EvalTimestamps == {MsPerBar, 2 * MsPerBar}

\* The dictionaries of open positions over a set of symbols.
Ledgers(symbols, positions) ==
    UNION {[d -> positions] : d \in SUBSET symbols}

(***************************************************************************)
(* State.                                                                  *)
(***************************************************************************)
VARIABLES
    \* The evaluator called on its own.
    ev_input,       \* current_positions, current_price_data and the history
    ev_positions,   \* current_positions as the calls so far left it
    ev_result,      \* the pair the last call returned
    ev_calls,       \* calls made so far
    \* run_bot.
    pc,                               \* where the loop body stands
    cycle,                            \* cycles started so far
    positions_file,                   \* the content of positions.json
    open_positions,
    positions_modified_in_cycle,
    current_usdt_balance,
    potential_buy_signals,
    all_positions_to_close_in_cycle,
    sym_idx,                          \* the for loop over TRADE_SYMBOLS
    sig_idx,                          \* the for loop over the sorted signals
    slots_available,
    trades_executed_in_this_cycle,
    cycle_balance,                    \* the balance logged at line 91
    buy_log,                          \* the COMPRA EXECUTADA lines of the cycle
    eval_log,                         \* the symbols analysed in the cycle
    \* Backtester.
    bt_initial_capital,               \* self.initial_capital
    bt_capital,                       \* self.capital
    bt_positions,                     \* self.current_positions
    trade_history,                    \* self.trade_history
    bt_result,                        \* what the last call returned
    bt_calls,                         \* calls made so far
    \* The processes started on bot.lock.
    proc_pc,                          \* where each process stands in run_bot
    lock_path,                        \* the file named bot.lock: 0 or its inode
    flock_held                        \* the inode each process holds locked

evVars == <<ev_input, ev_positions, ev_result, ev_calls>>
botVars == <<pc, cycle, positions_file, open_positions,
             positions_modified_in_cycle, current_usdt_balance,
             potential_buy_signals, all_positions_to_close_in_cycle,
             sym_idx, sig_idx, slots_available,
             trades_executed_in_this_cycle, cycle_balance, buy_log,
             eval_log>>
btVars == <<bt_initial_capital, bt_capital, bt_positions, trade_history,
           bt_result, bt_calls>>
lockVars == <<proc_pc, lock_path, flock_held>>
\* What run_bot in one process leaves alone.
restVars == <<evVars, btVars, lockVars>>
vars == <<evVars, botVars, btVars, lockVars>>

NoResult == [positions_to_close |-> <<>>, new_position_data |-> NoSignal]
NoInput ==
    [positions |-> <<>>, cpd |-> [symbol |-> "", price |-> 0, timestamp |-> 0],
     hist |-> [n |-> 0, gain |-> 0, loss |-> 0,
               ind |-> [SMA_Fast |-> 0, SMA_Slow |-> 0, MACD |-> 0,
                        Signal |-> 0, MACD_prev |-> 0, Signal_prev |-> 0]]]

(***************************************************************************)
(* The evaluator on its own: the inputs are drawn, then the call is made,  *)
(* MaxCalls times on the same current_price_data and history and on the    *)
(* dictionary the previous call left.                                      *)
(***************************************************************************)
EvalSymbol == TRADE_SYMBOLS[1]
EvalOtherSymbol == TRADE_SYMBOLS[2]
EvalLedgers ==
    {L \in Ledgers({EvalSymbol, EvalOtherSymbol}, EvalPositions) :
        EvalOtherSymbol \in DOMAIN L =>
            L[EvalOtherSymbol] = [entry_price |-> 100, current_high |-> 100,
                                  entry_time |-> 0]}
EvalPriceFits(L, p) ==
    p = 0 => /\ EvalSymbol \in DOMAIN L
             /\ L[EvalSymbol].entry_price = 0
EvalInputs ==
    {i \in {[positions |-> L,
             cpd |-> [symbol |-> EvalSymbol, price |-> p, timestamp |-> t],
             hist |-> [n |-> n, gain |-> gl[1], loss |-> gl[2],
                       ind |-> row]] :
                L \in EvalLedgers, p \in EvalPrices, t \in EvalTimestamps,
                n \in EvalBars, gl \in GainLossPairs,
                row \in IndicatorRows} :
        EvalPriceFits(i.positions, i.cpd.price)}

BotIdle ==
    /\ pc = "idle"
    /\ cycle = 0
    /\ positions_file = <<>>
    /\ open_positions = <<>>
    /\ positions_modified_in_cycle = FALSE
    /\ current_usdt_balance = NoBalance
    /\ potential_buy_signals = <<>>
    /\ all_positions_to_close_in_cycle = <<>>
    /\ sym_idx = 1
    /\ sig_idx = 1
    /\ slots_available = 0
    /\ trades_executed_in_this_cycle = 0
    /\ cycle_balance = NoBalance
    /\ buy_log = <<>>
    /\ eval_log = <<>>

\* No Backtester was built.
BtIdle ==
    /\ bt_initial_capital = 0
    /\ bt_capital = 0
    /\ bt_positions = <<>>
    /\ trade_history = <<>>
    /\ bt_result = FALSE
    /\ bt_calls = 0

\* No process was started; bot.lock does not exist.
Procs == 1..MaxProcs
LockIdle ==
    /\ proc_pc = [p \in Procs |-> "idle"]
    /\ lock_path = 0
    /\ flock_held = [p \in Procs |-> 0]

EvalIdle ==
    /\ ev_input = NoInput
    /\ ev_positions = <<>>
    /\ ev_result = NoResult
    /\ ev_calls = 0

EvalInit ==
    /\ ev_input \in EvalInputs
    /\ ev_positions = ev_input.positions
    /\ ev_result = NoResult
    /\ ev_calls = 0
    /\ BotIdle
    /\ BtIdle
    /\ LockIdle

Evaluate ==
    /\ ev_calls < MaxCalls
    /\ LET r == ExecuteStrategyCycle(ev_positions, ev_input.cpd, ev_input.hist)
       IN  /\ ev_positions' = r.positions
           /\ ev_result' = [positions_to_close |-> r.positions_to_close,
                            new_position_data |-> r.new_position_data]
    /\ ev_calls' = ev_calls + 1
    /\ UNCHANGED <<ev_input, botVars, btVars, lockVars>>

EvalNext == Evaluate

SpecEval == EvalInit /\ [][EvalNext]_vars

(***************************************************************************)
(* The evaluator and the commit of its candidate: after the first call,    *)
(* run_bot's allocation stores the position bought for the candidate       *)
(* (lines 191-197, with the fixed amount), and the evaluator is called     *)
(* again on the same current_price_data and history.                       *)
(***************************************************************************)
OpenCandidate ==
    /\ ev_calls = 1
    /\ ev_result.new_position_data # NoSignal
    /\ ev_input.cpd.symbol \notin DOMAIN ev_positions
    /\ LET signal == ev_result.new_position_data[1]
       IN  ev_positions' =
              [s \in DOMAIN ev_positions \cup {signal.symbol} |->
                  IF s = signal.symbol
                  THEN SimulateBuy(signal.symbol, signal.price,
                                   signal.timestamp, TRADE_AMOUNT_USDT)
                  ELSE ev_positions[s]]
    /\ UNCHANGED <<ev_input, ev_result, ev_calls, botVars, btVars, lockVars>>

ReentryNext == Evaluate \/ OpenCandidate

SpecReentry == EvalInit /\ [][ReentryNext]_vars

(***************************************************************************)
(* run_bot.                                                                *)
(***************************************************************************)
\* load_open_positions: json.load, then entry_time from integer
\* milliseconds to a datetime (whole seconds here).  A missing or undecodable
\* file gives {}; positions_file is then the empty dictionary.
LoadOpenPositions(file) ==
    [s \in DOMAIN file |->
        [file[s] EXCEPT !.entry_time = file[s].entry_time \div 1000]]

\* save_open_positions: a copy of every position with entry_time from a
\* datetime to int(timestamp() * 1000).
SaveOpenPositions(positions) ==
    [s \in DOMAIN positions |->
        [positions[s] EXCEPT !.entry_time = positions[s].entry_time * 1000]]

\* Lines 143-149: del open_positions[s] for every (s, reason) collected.
\* (RemoveClosed_None deletes nothing.)
RemoveClosed_None(positions, closes) == positions

RemoveClosed(positions, closes) ==
    LET closed == {closes[k][1] : k \in 1..Len(closes)}
    IN  [s \in DOMAIN positions \ closed |-> positions[s]]

AnyClosed(positions, closes) ==
    \E k \in 1..Len(closes) : closes[k][1] \in DOMAIN positions

\* Line 157: list.sort(key = score, reverse = True), a stable sort: signals
\* of equal score keep the order in which they were appended.
\* (InsertByScore_Unstable puts x before the signals of equal score.)
RECURSIVE InsertByScore_Unstable(_, _)
InsertByScore_Unstable(sorted, x) ==
    IF sorted = <<>> THEN <<x>>
    ELSE IF Head(sorted).score > x.score
         THEN <<Head(sorted)>> \o InsertByScore_Unstable(Tail(sorted), x)
         ELSE <<x>> \o sorted

RECURSIVE InsertByScore(_, _)
InsertByScore(sorted, x) ==
    IF sorted = <<>> THEN <<x>>
    ELSE IF Head(sorted).score >= x.score
         THEN <<Head(sorted)>> \o InsertByScore(Tail(sorted), x)
         ELSE <<x>> \o sorted

SortByScoreDesc_Unsorted(signals) == signals

RECURSIVE SortByScoreDesc(_)
SortByScoreDesc(signals) ==
    IF signals = <<>> THEN <<>>
    ELSE InsertByScore(SortByScoreDesc(SubSeq(signals, 1, Len(signals) - 1)),
                       signals[Len(signals)])

\* Line 171: the limit of open positions is reached.
PositionLimitReached_Strict(positions) ==
    Cardinality(DOMAIN positions) > MAX_OPEN_POSITIONS

PositionLimitReached(positions) ==
    Cardinality(DOMAIN positions) >= MAX_OPEN_POSITIONS

\* Lines 177-187: the fixed amount, capped by the available balance.
TradeAmount_Uncapped(balance) == TRADE_AMOUNT_USDT

TradeAmount(balance) ==
    IF TRADE_AMOUNT_USDT > balance THEN balance ELSE TRADE_AMOUNT_USDT

\* Line 198: current_usdt_balance -= trade_amount_for_this_signal.
Debit_Credit(balance, amount) == balance + amount

Debit(balance, amount) == balance - amount

\* Line 197: open_positions[symbol] = new_position.
PutPosition(positions, symbol, position) ==
    [s \in DOMAIN positions \cup {symbol} |->
        IF s = symbol THEN position ELSE positions[s]]

\* Positions for symbols outside TRADE_SYMBOLS that positions.json holds from
\* a run under an earlier symbol list: never evaluated, never closed, and
\* counted by len(open_positions).
LegacySymbols == <<"BNBUSDT", "XRPUSDT", "ADAUSDT", "SOLUSDT">>
LegacyFile(k) ==
    [s \in {LegacySymbols[j] : j \in 1..k} |->
        [entry_price |-> 100, current_high |-> 100, entry_time |-> 0]]
LegacyCounts == {0, Len(LegacySymbols)}
\* positions.json as an earlier run of the bot left it: the legacy positions
\* and, or not, a position of the first trade symbol bought at 100.
HeldFile(held) ==
    [s \in (IF held THEN {TRADE_SYMBOLS[1]} ELSE {}) |->
        [entry_price |-> 100, current_high |-> 100, entry_time |-> 0]]
InitialFiles ==
    {[s \in DOMAIN LegacyFile(k) \cup DOMAIN HeldFile(held) |->
        IF s \in DOMAIN HeldFile(held) THEN HeldFile(held)[s]
        ELSE LegacyFile(k)[s]] :
        k \in LegacyCounts, held \in BOOLEAN}

\* What get_account_balance returns: None or the free USDT.
Balances == {NoBalance, 5, 150, 1000}

\* What get_klines returns for a symbol: None, or a frame of n bars whose
\* last close is the current price, with the indicator row of its last bar.
CyclePrices == {94, 100, 105}
CycleGainLoss == {<<1, 19>>, <<1, 4>>, <<10, 15>>, <<3, 1>>}
\* The last bars of a cycle: every RSI at the price 100, and the prices
\* below and above it at the RSI 40.
CycleBars ==
    {<<100, gl>> : gl \in CycleGainLoss}
    \cup {<<p, <<10, 15>>>> : p \in CyclePrices}
CycleRow ==
    [SMA_Fast |-> 101, SMA_Slow |-> 100, MACD |-> 0, Signal |-> 0,
     MACD_prev |-> 0, Signal_prev |-> 0]
KlineResults ==
    {[ok |-> FALSE, price |-> 0, n |-> 0, gain |-> 0, loss |-> 0,
      ind |-> CycleRow]}
    \cup {[ok |-> TRUE, price |-> pg[1], n |-> KLINE_LIMIT,
           gain |-> pg[2][1], loss |-> pg[2][2], ind |-> CycleRow] :
            pg \in CycleBars}
    \cup {[ok |-> TRUE, price |-> 100, n |-> MinCandlesNeeded - 1,
           gain |-> 1, loss |-> 4, ind |-> CycleRow]}

BotInit ==
    /\ pc = "cycle"
    /\ cycle = 0
    /\ positions_file \in InitialFiles
    /\ open_positions = <<>>
    /\ positions_modified_in_cycle = FALSE
    /\ current_usdt_balance = NoBalance
    /\ potential_buy_signals = <<>>
    /\ all_positions_to_close_in_cycle = <<>>
    /\ sym_idx = 1
    /\ sig_idx = 1
    /\ slots_available = 0
    /\ trades_executed_in_this_cycle = 0
    /\ cycle_balance = NoBalance
    /\ buy_log = <<>>
    /\ eval_log = <<>>

Init ==
    /\ EvalIdle
    /\ BotInit
    /\ BtIdle
    /\ LockIdle

\* Line 85: current_usdt_balance is None.
BalanceMissing_Never(balance) == FALSE

BalanceMissing(balance) == balance = NoBalance

\* Lines 79-94: the ledger is loaded and the balance fetched.  Without a
\* balance the cycle is skipped (sleep, continue); with one the lists of the
\* cycle are created and the loop over TRADE_SYMBOLS starts.
BeginCycle ==
    /\ pc = "cycle"
    /\ cycle < MaxCycles
    /\ cycle' = cycle + 1
    /\ open_positions' = LoadOpenPositions(positions_file)
    /\ positions_modified_in_cycle' = FALSE
    /\ \E balance \in Balances :
        /\ current_usdt_balance' = balance
        /\ IF BalanceMissing(balance)
           THEN /\ pc' = "cycle"
                /\ UNCHANGED <<potential_buy_signals,
                               all_positions_to_close_in_cycle, sym_idx,
                               cycle_balance, buy_log, eval_log>>
           ELSE /\ pc' = "evaluate"
                /\ potential_buy_signals' = <<>>
                /\ all_positions_to_close_in_cycle' = <<>>
                /\ sym_idx' = 1
                /\ cycle_balance' = balance
                /\ buy_log' = <<>>
                /\ eval_log' = <<>>
    /\ UNCHANGED <<positions_file, sig_idx, slots_available,
                   trades_executed_in_this_cycle, restVars>>

\* Lines 111-113: the iteration of the loop over TRADE_SYMBOLS that follows
\* the one at idx; a symbol without klines is skipped with continue.
\* (NextSymbol_Break leaves the loop instead.)
NextSymbol_Break(idx, fetched) ==
    IF fetched THEN idx + 1 ELSE Len(TRADE_SYMBOLS) + 1

NextSymbol(idx, fetched) == idx + 1

\* Lines 97-140: one iteration of the loop over TRADE_SYMBOLS.  Without
\* klines the symbol is skipped; otherwise the strategy is called on the
\* dictionary open_positions itself and its answers are collected.
EvaluateSymbol ==
    /\ pc = "evaluate"
    /\ sym_idx <= Len(TRADE_SYMBOLS)
    /\ \E klines \in KlineResults :
        /\ eval_log' = Append(eval_log,
              [symbol |-> TRADE_SYMBOLS[sym_idx], fetched |-> klines.ok,
               price |-> klines.price, n |-> klines.n,
               high_before |->
                  IF TRADE_SYMBOLS[sym_idx] \in DOMAIN open_positions
                  THEN open_positions[TRADE_SYMBOLS[sym_idx]].current_high
                  ELSE NoPosition])
        /\ sym_idx' = NextSymbol(sym_idx, klines.ok)
        /\ IF ~klines.ok
           THEN UNCHANGED <<open_positions, all_positions_to_close_in_cycle,
                            potential_buy_signals>>
           ELSE LET cpd == [symbol |-> TRADE_SYMBOLS[sym_idx],
                            price |-> klines.price,
                            timestamp |-> cycle * MsPerBar]
                    hist == [n |-> klines.n, gain |-> klines.gain,
                             loss |-> klines.loss, ind |-> klines.ind]
                    r == ExecuteStrategyCycle(open_positions, cpd, hist)
                IN  /\ open_positions' = r.positions
                    /\ all_positions_to_close_in_cycle' =
                          all_positions_to_close_in_cycle
                             \o r.positions_to_close
                    /\ potential_buy_signals' =
                          potential_buy_signals \o r.new_position_data
    /\ UNCHANGED <<pc, cycle, positions_file, positions_modified_in_cycle,
                   current_usdt_balance, sig_idx, slots_available,
                   trades_executed_in_this_cycle, cycle_balance, buy_log,
                   restVars>>

\* Lines 143-149: the loop over TRADE_SYMBOLS is over; every collected
\* position is removed from open_positions.
ApplyExits ==
    /\ pc = "evaluate"
    /\ sym_idx > Len(TRADE_SYMBOLS)
    /\ open_positions' =
          RemoveClosed(open_positions, all_positions_to_close_in_cycle)
    /\ positions_modified_in_cycle' =
          (positions_modified_in_cycle
             \/ AnyClosed(open_positions, all_positions_to_close_in_cycle))
    /\ pc' = "sort"
    /\ UNCHANGED <<cycle, positions_file, current_usdt_balance,
                   potential_buy_signals, all_positions_to_close_in_cycle,
                   sym_idx, sig_idx, slots_available,
                   trades_executed_in_this_cycle, cycle_balance, buy_log,
                   eval_log, restVars>>

\* Lines 157-168: the signals are sorted by score, the free slots counted;
\* without a free slot the loop over the signals is not entered.
SortSignals ==
    /\ pc = "sort"
    /\ potential_buy_signals' = SortByScoreDesc(potential_buy_signals)
    /\ trades_executed_in_this_cycle' = 0
    /\ slots_available' =
          MAX_OPEN_POSITIONS - Cardinality(DOMAIN open_positions)
    /\ sig_idx' = 1
    /\ pc' = IF slots_available' <= 0 THEN "save" ELSE "allocate"
    /\ UNCHANGED <<cycle, positions_file, open_positions,
                   positions_modified_in_cycle, current_usdt_balance,
                   all_positions_to_close_in_cycle, sym_idx, cycle_balance,
                   buy_log, eval_log, restVars>>

AllocFrame ==
    UNCHANGED <<cycle, positions_file, potential_buy_signals,
                all_positions_to_close_in_cycle, sym_idx, cycle_balance,
                eval_log, restVars>>

\* Lines 170-173: the limit of positions is reached: break.
AllocStopSlots ==
    /\ pc = "allocate"
    /\ sig_idx <= Len(potential_buy_signals)
    /\ PositionLimitReached(open_positions)
    /\ pc' = "save"
    /\ UNCHANGED <<open_positions, positions_modified_in_cycle,
                   current_usdt_balance, sig_idx, slots_available,
                   trades_executed_in_this_cycle, buy_log>>
    /\ AllocFrame

\* Lines 175-202: the amount reaches the minimum: the buy is simulated, the
\* position stored, the balance reduced, and the loop goes on.
AllocCommit ==
    /\ pc = "allocate"
    /\ sig_idx <= Len(potential_buy_signals)
    /\ ~PositionLimitReached(open_positions)
    /\ LET signal == potential_buy_signals[sig_idx]
           trade_amount_for_this_signal == TradeAmount(current_usdt_balance)
       IN  /\ trade_amount_for_this_signal >= MIN_TRADE_AMOUNT_USDT
           /\ open_positions' =
                 PutPosition(open_positions, signal.symbol,
                             SimulateBuy(signal.symbol, signal.price,
                                         signal.timestamp,
                                         trade_amount_for_this_signal))
           /\ current_usdt_balance' =
                 Debit(current_usdt_balance, trade_amount_for_this_signal)
           /\ buy_log' = Append(buy_log,
                 [symbol |-> signal.symbol, score |-> signal.score,
                  amount |-> trade_amount_for_this_signal,
                  capital_before |-> current_usdt_balance,
                  capital |-> current_usdt_balance',
                  open_before |-> Cardinality(DOMAIN open_positions),
                  open |-> Cardinality(DOMAIN open_positions')])
    /\ trades_executed_in_this_cycle' = trades_executed_in_this_cycle + 1
    /\ slots_available' = slots_available - 1
    /\ positions_modified_in_cycle' = TRUE
    /\ sig_idx' = sig_idx + 1
    /\ pc' = "allocate"
    /\ AllocFrame

\* Lines 203-206: the amount is below the minimum: break.  (AllocSkipCapital
\* is the loop going on to the next signal instead.)
AllocSkipCapital ==
    /\ pc = "allocate"
    /\ sig_idx <= Len(potential_buy_signals)
    /\ ~PositionLimitReached(open_positions)
    /\ TradeAmount(current_usdt_balance) < MIN_TRADE_AMOUNT_USDT
    /\ pc' = "allocate"
    /\ sig_idx' = sig_idx + 1
    /\ UNCHANGED <<open_positions, positions_modified_in_cycle,
                   current_usdt_balance, slots_available,
                   trades_executed_in_this_cycle, buy_log>>
    /\ AllocFrame

AllocStopCapital ==
    /\ pc = "allocate"
    /\ sig_idx <= Len(potential_buy_signals)
    /\ ~PositionLimitReached(open_positions)
    /\ TradeAmount(current_usdt_balance) < MIN_TRADE_AMOUNT_USDT
    /\ pc' = "save"
    /\ UNCHANGED <<open_positions, positions_modified_in_cycle,
                   current_usdt_balance, sig_idx, slots_available,
                   trades_executed_in_this_cycle, buy_log>>
    /\ AllocFrame

\* The loop over the signals is exhausted.
AllocDone ==
    /\ pc = "allocate"
    /\ sig_idx > Len(potential_buy_signals)
    /\ pc' = "save"
    /\ UNCHANGED <<open_positions, positions_modified_in_cycle,
                   current_usdt_balance, sig_idx, slots_available,
                   trades_executed_in_this_cycle, buy_log>>
    /\ AllocFrame

\* Lines 214-221: the ledger is saved if the cycle closed or opened a
\* position; then the delay, and the next cycle.
EndCycle ==
    /\ pc = "save"
    /\ positions_file' =
          IF positions_modified_in_cycle
          THEN SaveOpenPositions(open_positions)
          ELSE positions_file
    /\ pc' = "cycle"
    /\ UNCHANGED <<cycle, open_positions, positions_modified_in_cycle,
                   current_usdt_balance, potential_buy_signals,
                   all_positions_to_close_in_cycle, sym_idx, sig_idx,
                   slots_available, trades_executed_in_this_cycle,
                   cycle_balance, buy_log, eval_log, restVars>>

\* Lines 225-226: Ctrl+C.  KeyboardInterrupt is raised at whatever statement
\* of the loop body, or of the delay, the process stands at; nothing between
\* line 78 and line 221 catches it, so the while loop is left at once for
\* the handler of line 225 and run_bot returns.
KeyboardInterruptHalt ==
    /\ pc \in {"cycle", "evaluate", "sort", "allocate", "save"}
    /\ pc' = "halted"
    /\ UNCHANGED <<cycle, positions_file, open_positions,
                   positions_modified_in_cycle, current_usdt_balance,
                   potential_buy_signals, all_positions_to_close_in_cycle,
                   sym_idx, sig_idx, slots_available,
                   trades_executed_in_this_cycle, cycle_balance, buy_log,
                   eval_log, restVars>>

Next ==
    \/ BeginCycle
    \/ EvaluateSymbol
    \/ ApplyExits
    \/ SortSignals
    \/ AllocStopSlots
    \/ AllocCommit
    \/ AllocStopCapital
    \/ AllocDone
    \/ EndCycle
    \/ KeyboardInterruptHalt

Spec == Init /\ [][Next]_vars

(***************************************************************************)
(* Backtester: the simulated account (src/backtester.py).  Prices and      *)
(* quantities are whole numbers; the timestamp of a call is its number.    *)
(***************************************************************************)
BtSymbols == {TRADE_SYMBOLS[1], TRADE_SYMBOLS[2]}
BtPrices == {0, 10, 12}
BtQuantities == {0, 1, 3}
BtCapitals == {0, 25, 100}
BtReasons == {"Stop-Loss atingido", "Take-Profit atingido"}

BtInit ==
    /\ EvalIdle
    /\ BotIdle
    /\ LockIdle
    /\ bt_initial_capital \in BtCapitals
    /\ bt_capital = bt_initial_capital
    /\ bt_positions = <<>>
    /\ trade_history = <<>>
    /\ bt_result = FALSE
    /\ bt_calls = 0

\* Backtester._simulate_buy
BtSimulateBuy ==
    /\ bt_calls < MaxBtCalls
    /\ bt_calls' = bt_calls + 1
    /\ \E symbol \in BtSymbols, current_price \in BtPrices,
          quantity \in BtQuantities :
        LET cost == current_price * quantity
            position == [entry_price |-> current_price,
                         bought_quantity |-> quantity,
                         entry_time |-> bt_calls',
                         current_high |-> current_price]
        IN  IF bt_capital >= cost
            THEN /\ bt_capital' = bt_capital - cost
                 /\ bt_positions' = PutPosition(bt_positions, symbol, position)
                 /\ bt_result' = TRUE
            ELSE /\ bt_result' = FALSE
                 /\ UNCHANGED <<bt_capital, bt_positions>>
    /\ UNCHANGED <<bt_initial_capital, trade_history, evVars, botVars,
                   lockVars>>

\* Backtester._simulate_sell
BtSimulateSell ==
    /\ bt_calls < MaxBtCalls
    /\ bt_calls' = bt_calls + 1
    /\ \E symbol \in BtSymbols, current_price \in BtPrices,
          quantity \in BtQuantities, reason \in BtReasons :
        IF symbol \in DOMAIN bt_positions
        THEN LET position == bt_positions[symbol]
                 revenue == current_price * quantity
                 pnl == (current_price - position.entry_price) * quantity
                 trade == [symbol |-> symbol,
                           entry_price |-> position.entry_price,
                           exit_price |-> current_price,
                           quantity |-> quantity,
                           entry_time |-> position.entry_time,
                           exit_time |-> bt_calls',
                           pnl |-> pnl,
                           reason |-> reason]
             IN  /\ bt_capital' = bt_capital + revenue
                 /\ trade_history' = Append(trade_history, trade)
                 /\ bt_positions' =
                       [x \in DOMAIN bt_positions \ {symbol} |->
                           bt_positions[x]]
                 /\ bt_result' = TRUE
        ELSE /\ bt_result' = FALSE
             /\ UNCHANGED <<bt_capital, bt_positions, trade_history>>
    /\ UNCHANGED <<bt_initial_capital, evVars, botVars, lockVars>>

BtNext == BtSimulateBuy \/ BtSimulateSell

SpecBacktest == BtInit /\ [][BtNext]_vars

(***************************************************************************)
(* The processes started on one directory.  run_bot takes                  *)
(* FileLock("bot.lock", timeout=5): the lock file is opened, and created   *)
(* if the name does not exist, and an exclusive non-blocking lock is       *)
(* requested on the open file until the timeout; the lock belongs to the   *)
(* file that was opened, not to its name.  lock_path is the file the name  *)
(* bot.lock denotes, 0 when there is none; a file is numbered after the    *)
(* process that created it.                                                *)
(***************************************************************************)
\* The processes that hold the file locked.
FlockHolders(file) == {q \in Procs : flock_held[q] = file}

LockInit ==
    /\ EvalIdle
    /\ BotIdle
    /\ BtIdle
    /\ proc_pc = [p \in Procs |-> "start"]
    /\ lock_path = 0
    /\ flock_held = [p \in Procs |-> 0]

\* Line 72, with lock: the file is opened or created and locked; the
\* process enters the while loop of line 78.
LockAcquire(p) ==
    /\ proc_pc[p] = "start"
    /\ LET file == IF lock_path = 0 THEN p ELSE lock_path
       IN  /\ FlockHolders(file) = {}
           /\ lock_path' = file
           /\ flock_held' = [flock_held EXCEPT ![p] = file]
    /\ proc_pc' = [proc_pc EXCEPT ![p] = "loop"]
    /\ UNCHANGED <<evVars, botVars, btVars>>

\* Lines 72 and 223-224: the file stays locked by another process for the
\* whole timeout: Timeout is raised and handled.
LockTimeout(p) ==
    /\ proc_pc[p] = "start"
    /\ lock_path # 0
    /\ FlockHolders(lock_path) # {}
    /\ proc_pc' = [proc_pc EXCEPT ![p] = "finally"]
    /\ UNCHANGED <<lock_path, flock_held, evVars, botVars, btVars>>

\* Lines 225-228: the loop is left by KeyboardInterrupt or by another
\* exception; leaving the with block releases the lock.
LoopLeft(p) ==
    /\ proc_pc[p] = "loop"
    /\ flock_held' = [flock_held EXCEPT ![p] = 0]
    /\ proc_pc' = [proc_pc EXCEPT ![p] = "finally"]
    /\ UNCHANGED <<lock_path, evVars, botVars, btVars>>

\* Lines 229-234: finally, the name bot.lock is removed if it exists.
FinallyRemove(p) ==
    /\ proc_pc[p] = "finally"
    /\ lock_path' = 0
    /\ proc_pc' = [proc_pc EXCEPT ![p] = "exited"]
    /\ UNCHANGED <<flock_held, evVars, botVars, btVars>>

\* Lines 235-236: os.remove raises, as it does on a platform that refuses
\* to remove a file another process has open; the error is logged.
FinallyRemoveFails(p) ==
    /\ proc_pc[p] = "finally"
    /\ lock_path # 0
    /\ FlockHolders(lock_path) # {}
    /\ proc_pc' = [proc_pc EXCEPT ![p] = "exited"]
    /\ UNCHANGED <<lock_path, flock_held, evVars, botVars, btVars>>

LockNext ==
    \/ \E p \in Procs : LockAcquire(p)
    \/ \E p \in Procs : LockTimeout(p)
    \/ \E p \in Procs : LoopLeft(p)
    \/ \E p \in Procs : FinallyRemove(p)
    \/ \E p \in Procs : FinallyRemoveFails(p)

SpecLock == LockInit /\ [][LockNext]_vars

(***************************************************************************)
(* Properties of the evaluator (checked under SpecEval).                   *)
(***************************************************************************)
EvSymbol == ev_input.cpd.symbol
EvPrice == ev_input.cpd.price
EvRSI == CalculateRSI(ev_input.hist.gain, ev_input.hist.loss)
EvInd == ev_input.hist.ind
EvCalled == ev_calls > 0
\* The indicators are available: the history has the warm-up length.
EvWarm == ev_input.hist.n >= MinCandlesNeeded
\* The symbol had an open position when the first call was made.
EvOpen == EvSymbol \in DOMAIN ev_input.positions
EvCloses == ev_result.positions_to_close
EvCandidate == ev_result.new_position_data

\* The exit rules in the order the specification gives them.
ExitRulesInOrder(entry_price, current_high, current_price, rsi) ==
    << [reason |-> "Stop-Loss atingido",
        hit |-> 100 * current_price <= 95 * entry_price],
       [reason |-> "Take-Profit atingido",
        hit |-> 100 * current_price >= 110 * entry_price],
       [reason |-> "Trailing Stop atingido",
        hit |-> 100 * current_price <= 95 * current_high],
       [reason |-> "RSI Sobrecomprado",
        hit |-> rsi # NaN /\ rsi >= 70] >>

\* The entry rules as the specification states them.
EntryRule1(ind, rsi) == ind.SMA_Fast > ind.SMA_Slow /\ rsi # NaN /\ rsi <= 70
EntryRule2(ind, rsi) == rsi # NaN /\ rsi <= 30 /\ ind.SMA_Fast > ind.SMA_Slow
EntryRule3(ind, rsi) ==
    /\ ind.MACD > ind.Signal
    /\ ind.MACD_prev <= ind.Signal_prev
    /\ rsi # NaN /\ rsi <= 70

\* C1: for an open position with the indicators available, the close list
\* holds at most one entry; it is empty when no exit rule holds and otherwise
\* names the first rule, in the order stop-loss, take-profit, trailing stop,
\* RSI overbought, whose condition holds; with the stop-loss and the
\* take-profit conditions both true the reason is the stop-loss.
C1_ExitPriority ==
    (EvCalled /\ EvWarm /\ EvOpen) =>
        LET pos == ev_input.positions[EvSymbol]
            rules == ExitRulesInOrder(pos.entry_price,
                                      Max(pos.current_high, EvPrice),
                                      EvPrice, EvRSI)
            hits == {k \in 1..Len(rules) : rules[k].hit}
        IN  /\ Len(EvCloses) <= 1
            /\ hits = {} => EvCloses = <<>>
            /\ hits # {} =>
                 \E k \in hits :
                    /\ \A j \in hits : k <= j
                    /\ EvCloses = << <<EvSymbol, rules[k].reason>> >>
            /\ (rules[1].hit /\ rules[2].hit) =>
                 EvCloses = << <<EvSymbol, "Stop-Loss atingido">> >>

\* A call on an open position whose stop-loss and take-profit conditions
\* both hold, answered with the stop-loss.
C1_Witness ==
    /\ EvCalled /\ EvWarm /\ EvOpen
    /\ StopLossHit(ev_input.positions[EvSymbol].entry_price, EvPrice)
    /\ TakeProfitHit(ev_input.positions[EvSymbol].entry_price, EvPrice)
    /\ EvCloses = << <<EvSymbol, "Stop-Loss atingido">> >>

\* C2: a call for a symbol with an open position returns no entry candidate,
\* a call for a symbol without one returns an empty close list; no call
\* returns both an exit decision and an entry candidate.
C2_EntryExitExclusion ==
    EvCalled =>
        /\ EvOpen => EvCandidate = NoSignal
        /\ ~EvOpen => EvCloses = <<>>
        /\ ~(EvCloses # <<>> /\ EvCandidate # NoSignal)

\* A call on an open position for which the first entry rule holds as well:
\* no candidate comes back.
C2_Witness ==
    /\ EvCalled /\ EvWarm /\ EvOpen
    /\ EntryRule1(EvInd, EvRSI)
    /\ EvCloses = <<>>
    /\ EvCandidate = NoSignal

\* C3: on a history shorter than max(slow period, RSI period, 26) + 1 bars
\* the call returns no exit and no candidate and leaves the dictionary of
\* positions, current_high included, as it was.
C3_WarmUp ==
    (EvCalled /\ ev_input.hist.n < 27) =>
        /\ ev_result = NoResult
        /\ ev_positions = ev_input.positions

\* A call one bar short of the warm-up, on an open position whose stop-loss
\* condition holds and whose current_high lies below the price.
C3_Witness ==
    /\ EvCalled /\ EvOpen
    /\ ev_input.hist.n = 26
    /\ ev_input.positions[EvSymbol].current_high < EvPrice
    /\ RSIOverboughtHit(EvRSI)
    /\ ev_result = NoResult

\* C4: without an open position, with the indicators available, a fast
\* average above the slow one and an RSI at or below the overbought
\* threshold the call returns a candidate for the symbol with the current
\* price and timestamp and the score 100 - RSI (30 bars and RSI 45: one
\* candidate of score 55).
C4_TrendEntry ==
    (EvCalled /\ EvWarm /\ ~EvOpen /\ EvInd.SMA_Fast > EvInd.SMA_Slow
        /\ EvRSI # NaN /\ EvRSI <= 70) =>
        /\ EvCandidate = << [symbol |-> EvSymbol, price |-> EvPrice,
                             timestamp |-> ev_input.cpd.timestamp,
                             score |-> 100 - EvRSI] >>
        /\ (ev_input.hist.n = 30 /\ EvRSI = 45) => EvCandidate[1].score = 55

\* The scenario of the specification: 30 bars, RSI 45, score 55.
C4_Witness ==
    /\ EvCalled /\ ~EvOpen
    /\ ev_input.hist.n = 30
    /\ EvInd.SMA_Fast > EvInd.SMA_Slow
    /\ EvRSI = 45
    /\ Len(EvCandidate) = 1
    /\ EvCandidate[1].score = 55

\* C5 (as claimed): without an open position, when neither the first nor the
\* second entry rule holds, a MACD cross-up on the last bar with an RSI at or
\* below the overbought threshold yields a candidate.
C5_MACDEntryClaimed ==
    (EvCalled /\ EvWarm /\ ~EvOpen
        /\ ~EntryRule1(EvInd, EvRSI) /\ ~EntryRule2(EvInd, EvRSI)
        /\ EntryRule3(EvInd, EvRSI)) =>
        EvCandidate = << BuySignal(ev_input.cpd, EvRSI) >>

\* C6: every candidate has the score 100 - RSI of the last bar; one is
\* returned only if an entry rule holds, so never with an RSI above the
\* overbought threshold, and its score lies between 100 - 70 and 100
\* (RSI 30 gives 70).
C6_Score ==
    (EvCalled /\ EvCandidate # NoSignal) =>
        /\ Len(EvCandidate) = 1
        /\ EvCandidate[1].score = 100 - EvRSI
        /\ EvRSI # NaN /\ EvRSI <= 70
        /\ \/ EntryRule1(EvInd, EvRSI)
           \/ EntryRule2(EvInd, EvRSI)
           \/ EntryRule3(EvInd, EvRSI)
        /\ EvCandidate[1].score >= 30 /\ EvCandidate[1].score <= 100
        /\ EvRSI = 30 => EvCandidate[1].score = 70

\* A candidate returned at RSI 30 with the score 70.
C6_Witness ==
    /\ EvCalled /\ EvCandidate # NoSignal
    /\ EvRSI = 30
    /\ EvCandidate[1].score = 70

(***************************************************************************)
(* Properties of the allocation phase of run_bot (checked under Spec).     *)
(***************************************************************************)
\* The allocation phase of the current cycle has started.
InAllocation == pc \in {"allocate", "save"}
\* The number of open positions when the allocation phase started.
OpenAtAllocationStart ==
    MAX_OPEN_POSITIONS - (slots_available + trades_executed_in_this_cycle)
HasCandidate(symbol, score) ==
    \E k \in 1..Len(potential_buy_signals) :
        /\ potential_buy_signals[k].symbol = symbol
        /\ potential_buy_signals[k].score = score
Committed(symbol) ==
    \E i \in 1..Len(buy_log) : buy_log[i].symbol = symbol
RECURSIVE SumAmounts(_)
SumAmounts(log) ==
    IF log = <<>> THEN 0 ELSE Head(log).amount + SumAmounts(Tail(log))
\* The scenario of the specification: scores 80, 95 and 60, one free slot,
\* a balance of 1000.
C7_Scenario ==
    /\ Len(potential_buy_signals) = 3
    /\ HasCandidate(TRADE_SYMBOLS[1], 80)
    /\ HasCandidate(TRADE_SYMBOLS[2], 95)
    /\ HasCandidate(TRADE_SYMBOLS[3], 60)
    /\ OpenAtAllocationStart = MAX_OPEN_POSITIONS - 1
    /\ cycle_balance = 1000

\* C7: the entries of a cycle are committed in descending score order: when
\* a candidate is committed, every candidate of the cycle with a strictly
\* higher score was committed before it.  With the scores 80, 95 and 60,
\* one free slot and a balance of 1000, the allocation opens exactly one
\* position, for the candidate of score 95, and leaves a balance of 900.
C7_ScoreOrder ==
    /\ \A i \in 1..Len(buy_log) : \A k \in 1..Len(potential_buy_signals) :
          potential_buy_signals[k].score > buy_log[i].score =>
              \E j \in 1..(i - 1) :
                  buy_log[j].symbol = potential_buy_signals[k].symbol
    /\ (pc = "save" /\ C7_Scenario) =>
          /\ Len(buy_log) = 1
          /\ buy_log[1].symbol = TRADE_SYMBOLS[2]
          /\ DOMAIN open_positions \cap SymbolSet = {TRADE_SYMBOLS[2]}
          /\ Cardinality(DOMAIN open_positions) = MAX_OPEN_POSITIONS
          /\ current_usdt_balance = 900

\* The scenario allocated: one position, for the candidate of score 95.
C7_Witness ==
    /\ pc = "save" /\ C7_Scenario
    /\ Len(buy_log) = 1
    /\ buy_log[1].score = 95
    /\ current_usdt_balance = 900

\* C8: no entry is committed while the number of open positions is at or
\* above MAX_OPEN_POSITIONS: a ledger of at most that many positions at the
\* start of the allocation phase holds at most that many after every commit,
\* and with a ledger already at or above the limit nothing is committed.
C8_PositionLimit ==
    InAllocation =>
        /\ \A i \in 1..Len(buy_log) :
              /\ buy_log[i].open_before < MAX_OPEN_POSITIONS
              /\ buy_log[i].open <= MAX_OPEN_POSITIONS
        /\ OpenAtAllocationStart <= MAX_OPEN_POSITIONS =>
              Cardinality(DOMAIN open_positions) <= MAX_OPEN_POSITIONS
        /\ OpenAtAllocationStart >= MAX_OPEN_POSITIONS =>
              /\ buy_log = <<>>
              /\ trades_executed_in_this_cycle = 0

\* An entry was committed, the limit is reached, and candidates and capital
\* remain.
C8_Witness ==
    /\ pc = "save"
    /\ Len(buy_log) >= 1
    /\ Len(potential_buy_signals) > Len(buy_log)
    /\ Cardinality(DOMAIN open_positions) = MAX_OPEN_POSITIONS
    /\ current_usdt_balance >= TRADE_AMOUNT_USDT

\* C9: every committed entry uses the amount min(TRADE_AMOUNT_USDT, balance
\* before the commit), which is at least MIN_TRADE_AMOUNT_USDT; the commit
\* takes exactly that amount from the balance and adds one open position.
\* From a non-negative balance the balance stays non-negative through the
\* allocation phase and equals the starting balance less the committed
\* amounts.
C9_TradeAmount ==
    InAllocation =>
        /\ \A i \in 1..Len(buy_log) :
              /\ buy_log[i].amount = Min(TRADE_AMOUNT_USDT,
                                         buy_log[i].capital_before)
              /\ buy_log[i].amount >= MIN_TRADE_AMOUNT_USDT
              /\ buy_log[i].capital =
                    buy_log[i].capital_before - buy_log[i].amount
              /\ buy_log[i].open = buy_log[i].open_before + 1
              /\ buy_log[i].capital_before =
                    IF i = 1 THEN cycle_balance ELSE buy_log[i - 1].capital
              /\ buy_log[i].capital >= 0
        /\ current_usdt_balance =
              IF buy_log = <<>> THEN cycle_balance
              ELSE buy_log[Len(buy_log)].capital
        /\ Cardinality(DOMAIN open_positions) =
              OpenAtAllocationStart + Len(buy_log)
        /\ current_usdt_balance >= 0
        /\ current_usdt_balance = cycle_balance - SumAmounts(buy_log)

\* Two entries committed from a balance of 150: 100, then the remaining 50.
C9_Witness ==
    /\ pc = "save"
    /\ cycle_balance = 150
    /\ Len(buy_log) = 2
    /\ buy_log[1].amount = 100
    /\ buy_log[2].amount = 50
    /\ current_usdt_balance = 0

\* C10: when the amount computed for a candidate is below
\* MIN_TRADE_AMOUNT_USDT the loop over the candidates ends: the loop never
\* moves past a candidate it did not commit, and once it is over neither
\* that candidate nor a later one holds a position.  With a balance of 5 no
\* position is opened and the loop ends at the first candidate.
C10_CapitalStop ==
    InAllocation =>
        /\ sig_idx = Len(buy_log) + 1
        /\ \A i \in 1..Len(buy_log) :
              buy_log[i].symbol = potential_buy_signals[i].symbol
        /\ pc = "save" =>
              \A k \in sig_idx..Len(potential_buy_signals) :
                  /\ ~Committed(potential_buy_signals[k].symbol)
                  /\ potential_buy_signals[k].symbol \notin DOMAIN open_positions
        /\ (pc = "save" /\ cycle_balance = 5) =>
              /\ buy_log = <<>>
              /\ trades_executed_in_this_cycle = 0
              /\ sig_idx = 1

\* The loop ended at the first of several candidates for lack of capital.
C10_Witness ==
    /\ pc = "save"
    /\ cycle_balance = 5
    /\ slots_available > 0
    /\ Len(potential_buy_signals) >= 2
    /\ sig_idx = 1
    /\ buy_log = <<>>

(***************************************************************************)
(* Properties of the cycle of run_bot (checked under Spec).                *)
(***************************************************************************)
\* The evaluation phase of the current cycle is over.
AfterEvaluation == pc \in {"sort", "allocate", "save"}
\* The ledger as the current cycle loaded it (the file is written by the
\* save that ends the cycle only).
LoadedAtCycleStart == LoadOpenPositions(positions_file)
ClosedSymbols ==
    {all_positions_to_close_in_cycle[k][1] :
        k \in 1..Len(all_positions_to_close_in_cycle)}
CandidateSymbols ==
    {potential_buy_signals[k].symbol : k \in 1..Len(potential_buy_signals)}
\* The evaluation of the symbol was skipped or cut short: no klines, or
\* fewer bars than the indicators need.
Anomalous(e) == ~e.fetched \/ e.n < MinCandlesNeeded

\* C11 (as claimed): for a position that stays open, current_high never
\* decreases from one step of run_bot to the next, the reload of the ledger
\* at the start of the next cycle included.
C11_HighMonotone ==
    [][\A s \in DOMAIN open_positions \cap DOMAIN open_positions' :
          open_positions'[s].entry_time = open_positions[s].entry_time =>
              open_positions'[s].current_high >=
                  open_positions[s].current_high]_vars

\* C12 (as claimed): once a cycle is over, for every position that was
\* evaluated on a full history and stays open, the ledger the next cycle
\* will load holds current_high = max(previous current_high, current price).
C12_HighPersisted ==
    pc = "cycle" =>
        \A k \in 1..Len(eval_log) :
            LET e == eval_log[k]
            IN  (/\ e.fetched /\ e.n >= MinCandlesNeeded
                 /\ e.high_before # NoPosition
                 /\ e.symbol \notin ClosedSymbols) =>
                    /\ e.symbol \in DOMAIN positions_file
                    /\ LoadOpenPositions(positions_file)[e.symbol].current_high
                          = Max(e.high_before, e.price)

C14_PhaseOrder ==
    /\ pc = "evaluate" =>
          /\ DOMAIN open_positions = DOMAIN positions_file
          /\ ~positions_modified_in_cycle
          /\ buy_log = <<>>
          /\ current_usdt_balance = cycle_balance
    /\ AfterEvaluation =>
          /\ Len(eval_log) = Len(TRADE_SYMBOLS)
          /\ ClosedSymbols \subseteq DOMAIN positions_file
          /\ ClosedSymbols \cap DOMAIN open_positions = {}
    /\ pc = "sort" => buy_log = <<>>
    /\ InAllocation =>
          /\ OpenAtAllocationStart =
                Cardinality(DOMAIN positions_file \ ClosedSymbols)
          /\ slots_available =
                MAX_OPEN_POSITIONS
                  - Cardinality(DOMAIN positions_file \ ClosedSymbols)
                  - Len(buy_log)

\* A ledger at the limit at the start of the cycle, one exit, and an entry
\* committed in the same cycle into the freed slot.
C14_Witness ==
    /\ pc = "save"
    /\ Cardinality(DOMAIN positions_file) = MAX_OPEN_POSITIONS
    /\ Cardinality(ClosedSymbols) = 1
    /\ Len(buy_log) = 1
    /\ Cardinality(DOMAIN open_positions) = MAX_OPEN_POSITIONS

\* C15: every commit adds a symbol that had no position: the number of open
\* positions grows by one with every commit, no symbol is committed twice
\* in a cycle, and no symbol with a position at the start of the cycle is
\* committed in it, whether that position was closed in the cycle or not.
C15_OnePositionPerSymbol ==
    InAllocation =>
        /\ \A i \in 1..Len(buy_log) :
              /\ buy_log[i].open = buy_log[i].open_before + 1
              /\ buy_log[i].symbol \notin DOMAIN positions_file
              /\ buy_log[i].symbol \in DOMAIN open_positions
              /\ \A j \in 1..Len(buy_log) :
                    buy_log[j].symbol = buy_log[i].symbol => j = i
        /\ \A s \in DOMAIN positions_file :
              s \in DOMAIN open_positions =>
                  open_positions[s].entry_time
                      = LoadedAtCycleStart[s].entry_time
        /\ \A s \in DOMAIN positions_file : s \notin CandidateSymbols

\* A cycle that starts with a position for the first symbol whose entry
\* rule holds, keeps it, and commits entries for the other two symbols.
C15_Witness ==
    /\ pc = "save"
    /\ TRADE_SYMBOLS[1] \in DOMAIN positions_file
    /\ TRADE_SYMBOLS[1] \in DOMAIN open_positions
    /\ Len(eval_log) = Len(TRADE_SYMBOLS)
    /\ eval_log[1].fetched /\ eval_log[1].n >= MinCandlesNeeded
    /\ Len(buy_log) = 2

\* C16 (as claimed): every position removed by an exit decision has a
\* completed-trade record with its symbol and reason.
C16_TradeRecorded ==
    AfterEvaluation =>
        \A k \in 1..Len(all_positions_to_close_in_cycle) :
            \E i \in 1..Len(trade_history) :
                /\ trade_history[i].symbol =
                      all_positions_to_close_in_cycle[k][1]
                /\ trade_history[i].reason =
                      all_positions_to_close_in_cycle[k][2]

\* C17: within a cycle the balance never grows; the evaluation of a symbol
\* and the application of the exits leave it as it is, and it changes only
\* by a commit, which takes the committed amount from it.
C17_BalanceNeverIncreased ==
    [][pc # "cycle" =>
          /\ current_usdt_balance' <= current_usdt_balance
          /\ pc \in {"evaluate", "sort"} =>
                current_usdt_balance' = current_usdt_balance
          /\ current_usdt_balance' # current_usdt_balance =>
                /\ Len(buy_log') = Len(buy_log) + 1
                /\ current_usdt_balance' =
                      current_usdt_balance - buy_log'[Len(buy_log')].amount
                /\ buy_log'[Len(buy_log')].amount > 0]_vars

\* A cycle with an exit applied and an entry committed from a balance of
\* 150: the balance is 50.
C17_Witness ==
    /\ pc = "save"
    /\ ClosedSymbols # {}
    /\ cycle_balance = 150
    /\ Len(buy_log) = 1
    /\ current_usdt_balance = 50

\* C18 (as claimed): the bot does not halt with positions closed or opened
\* in the current cycle that positions.json does not hold.
C18_NoUnsavedHalt ==
    pc = "halted" =>
        (positions_modified_in_cycle =>
            positions_file = SaveOpenPositions(open_positions))

(***************************************************************************)
(* Properties of the lock (checked under SpecLock).                        *)
(***************************************************************************)
\* C19 (as claimed): at most one process is inside the cycle loop.
C19_SingleInstance ==
    Cardinality({p \in Procs : proc_pc[p] = "loop"}) <= 1

(***************************************************************************)
(* Properties of the RSI (checked under SpecEval).                         *)
(***************************************************************************)
\* C20 (as claimed): on a history of the warm-up length the RSI of the last
\* bar is a value in 0..100, and it is 100 when the window has no loss,
\* flat prices included.
C20_RSIDefined ==
    (EvCalled /\ EvWarm) =>
        /\ EvRSI \in 0..100
        /\ ev_input.hist.loss = 0 => EvRSI = 100

(***************************************************************************)
(* Further properties of the evaluator.                                    *)
(***************************************************************************)
\* C21: no candidate comes from the second branch of the entry rules: the
\* branch is reached only when the fast average is not above the slow one,
\* and its inner test asks for the opposite.  An input with the RSI at or
\* below the oversold threshold and the fast average above the slow one
\* gets its candidate from the first branch; with the fast average not
\* above the slow one and the RSI at or below the oversold threshold there
\* is no candidate.
C21_SecondRuleUnreachable ==
    (EvCalled /\ EvWarm /\ ~EvOpen) =>
        /\ EntryBranch(EvInd, EvRSI) # 2
        /\ EvCandidate # NoSignal => EntryBranch(EvInd, EvRSI) \in {1, 3}
        /\ EntryRule2(EvInd, EvRSI) =>
              /\ EntryBranch(EvInd, EvRSI) = 1
              /\ EvCandidate # NoSignal
        /\ (~(EvInd.SMA_Fast > EvInd.SMA_Slow)
               /\ EvRSI # NaN /\ EvRSI <= OVERSOLD_RSI) =>
              EvCandidate = NoSignal

\* A call whose input satisfies the second rule as the specification
\* states it: the candidate comes from the first branch.
C21_Witness ==
    /\ EvCalled /\ EvWarm /\ ~EvOpen
    /\ EvRSI # NaN /\ EvRSI <= OVERSOLD_RSI
    /\ EvInd.SMA_Fast > EvInd.SMA_Slow
    /\ EntryBranch(EvInd, EvRSI) = 1
    /\ EvCandidate # NoSignal

\* C23: a second call on the same current_price_data and history and on
\* the dictionary the first call left returns the pair the first call
\* returned and leaves the dictionary as the first call left it; no call
\* changes its inputs.
C23_Idempotent ==
    [][/\ ev_input' = ev_input
       /\ (ev_calls >= 1 /\ ev_calls' = ev_calls + 1) =>
             /\ ev_result' = ev_result
             /\ ev_positions' = ev_positions]_vars

\* Two calls on an open position whose current_high the first call raised
\* and for which it returned the RSI exit.
C23_Witness ==
    /\ ev_calls = 2
    /\ EvWarm /\ EvOpen
    /\ ev_input.positions[EvSymbol].current_high < EvPrice
    /\ ev_positions[EvSymbol].current_high = EvPrice
    /\ EvCloses # <<>>

(***************************************************************************)
(* Entry followed by exit (checked under SpecReentry).                     *)
(***************************************************************************)
\* The candidate of the first call was bought and the evaluator called
\* again.
EvReevaluated ==
    /\ ev_calls = 2
    /\ ~EvOpen
    /\ EvSymbol \in DOMAIN ev_positions

SymbolIndex(symbol) ==
    CHOOSE k \in 1..Len(TRADE_SYMBOLS) : TRADE_SYMBOLS[k] = symbol
\* The signals of equal score of the list stand in the order of
\* TRADE_SYMBOLS.
TiesInSymbolOrder(list) ==
    \A i \in 1..Len(list) : \A j \in (i + 1)..Len(list) :
        list[i].score = list[j].score =>
            SymbolIndex(list[i].symbol) < SymbolIndex(list[j].symbol)

\* C22: the candidates are appended in the order of TRADE_SYMBOLS; once
\* sorted, candidates of equal score still stand in that order, and they
\* are committed in that order: the commits of a cycle are the sorted list
\* taken from its head, no candidate passed over.
C22_StableTies ==
    /\ pc \in {"evaluate", "sort"} =>
          \A i \in 1..Len(potential_buy_signals) :
              \A j \in (i + 1)..Len(potential_buy_signals) :
                  SymbolIndex(potential_buy_signals[i].symbol)
                     < SymbolIndex(potential_buy_signals[j].symbol)
    /\ InAllocation =>
          /\ TiesInSymbolOrder(potential_buy_signals)
          /\ Len(buy_log) <= Len(potential_buy_signals)
          /\ \A i \in 1..Len(buy_log) :
                /\ buy_log[i].symbol = potential_buy_signals[i].symbol
                /\ buy_log[i].score = potential_buy_signals[i].score
    /\ TiesInSymbolOrder(buy_log)

\* Three candidates, the second symbol ahead and the first and the third
\* tied: the three are committed, the tied ones in the order of
\* TRADE_SYMBOLS.
C22_Witness ==
    /\ pc = "save"
    /\ Len(buy_log) = 3
    /\ buy_log[1].symbol = TRADE_SYMBOLS[2]
    /\ buy_log[2].symbol = TRADE_SYMBOLS[1]
    /\ buy_log[3].symbol = TRADE_SYMBOLS[3]
    /\ buy_log[1].score > buy_log[2].score
    /\ buy_log[2].score = buy_log[3].score

\* C24: an iteration of the loop over TRADE_SYMBOLS adds no position and
\* removes none, and changes nothing but the current_high of the position
\* of the symbol it evaluates; through the whole loop the open symbols are
\* the ones loaded at the start of the cycle.  The set of open symbols
\* changes only when the ledger is loaded, when the collected exits are
\* applied after the loop, and when the allocation commits a candidate.
C24_EvaluationFrame ==
    [][/\ pc = "evaluate" =>
             DOMAIN open_positions = DOMAIN LoadedAtCycleStart
       /\ (pc = "evaluate" /\ pc' = "evaluate") =>
             /\ DOMAIN open_positions' = DOMAIN open_positions
             /\ \A s \in DOMAIN open_positions :
                   /\ open_positions'[s].entry_price
                         = open_positions[s].entry_price
                   /\ open_positions'[s].entry_time
                         = open_positions[s].entry_time
                   /\ s # TRADE_SYMBOLS[sym_idx] =>
                         open_positions'[s] = open_positions[s]
       /\ DOMAIN open_positions' # DOMAIN open_positions =>
             \/ pc = "cycle"
             \/ pc = "evaluate" /\ pc' = "sort"
             \/ pc = "allocate" /\ sig_idx' = sig_idx + 1]_vars

\* The loop over TRADE_SYMBOLS is over, the exit of the first symbol is
\* collected, and its position is still in the dictionary, next to the
\* positions of the other symbols.
C24_Witness ==
    /\ pc = "evaluate"
    /\ sym_idx > Len(TRADE_SYMBOLS)
    /\ ClosedSymbols = {TRADE_SYMBOLS[1]}
    /\ TRADE_SYMBOLS[1] \in DOMAIN open_positions
    /\ Cardinality(DOMAIN open_positions) = MAX_OPEN_POSITIONS

\* Every position of the list has current_high >= entry_price.
HighAtLeastEntry(positions) ==
    \A s \in DOMAIN positions :
        positions[s].current_high >= positions[s].entry_price

\* C25: every position, in the dictionary and in the file, has
\* current_high >= entry_price; a position just bought has
\* current_high = entry_price, and a position evaluated on a full history
\* has current_high = max(current_high before the evaluation, current
\* price).
C25_HighAtLeastEntry ==
    /\ HighAtLeastEntry(open_positions)
    /\ HighAtLeastEntry(LoadOpenPositions(positions_file))
    /\ InAllocation =>
          \A i \in 1..Len(buy_log) :
              /\ buy_log[i].symbol \in DOMAIN open_positions
              /\ open_positions[buy_log[i].symbol].current_high
                    = open_positions[buy_log[i].symbol].entry_price
    /\ pc = "evaluate" =>
          \A k \in 1..Len(eval_log) :
              LET e == eval_log[k]
              IN  (e.fetched /\ e.n >= MinCandlesNeeded
                     /\ e.high_before # NoPosition) =>
                      open_positions[e.symbol].current_high
                          = Max(e.high_before, e.price)

\* A position bought at 100 and evaluated at the price 105: current_high
\* is 105, above the entry price.
C25_Witness ==
    /\ pc = "evaluate"
    /\ Len(eval_log) >= 1
    /\ eval_log[1].high_before # NoPosition
    /\ eval_log[1].price > eval_log[1].high_before
    /\ open_positions[TRADE_SYMBOLS[1]].current_high = eval_log[1].price
    /\ open_positions[TRADE_SYMBOLS[1]].current_high
          > open_positions[TRADE_SYMBOLS[1]].entry_price

\* C26: a cycle whose balance fetch returns None ends there: no symbol is
\* analysed, no exit collected or applied, no candidate collected or
\* bought, the file is not written, the dictionary is the one just loaded,
\* and run_bot is back at the start of a cycle.
C26_SkippedCycle ==
    [][(pc = "cycle" /\ cycle' = cycle + 1
          /\ current_usdt_balance' = NoBalance) =>
             /\ pc' = "cycle"
             /\ open_positions' = LoadedAtCycleStart
             /\ UNCHANGED <<positions_file, eval_log, buy_log,
                            all_positions_to_close_in_cycle,
                            potential_buy_signals, cycle_balance>>]_vars

\* A first cycle that analysed the symbols, and a second one skipped for
\* want of a balance, a position of the first symbol being open.
C26_Witness ==
    /\ pc = "cycle"
    /\ cycle = 2
    /\ current_usdt_balance = NoBalance
    /\ Len(eval_log) = Len(TRADE_SYMBOLS)
    /\ TRADE_SYMBOLS[1] \in DOMAIN open_positions

(***************************************************************************)
(* Properties of the Backtester (checked under SpecBacktest).              *)
(***************************************************************************)
\* The sum of entry_price * bought_quantity over the open positions.
RECURSIVE SumCost(_, _)
SumCost(positions, symbols) ==
    IF symbols = {} THEN 0
    ELSE LET s == CHOOSE x \in symbols : TRUE
         IN  positions[s].entry_price * positions[s].bought_quantity
               + SumCost(positions, symbols \ {s})
\* The sum of pnl over the completed trades.
RECURSIVE SumPnl(_)
SumPnl(trades) ==
    IF trades = <<>> THEN 0 ELSE Head(trades).pnl + SumPnl(Tail(trades))

\* C28 (as claimed): after any calls of _simulate_buy and _simulate_sell
\* the capital is non-negative and capital + the cost of the open positions
\* = initial capital + the sum of the recorded pnl; a call that returns
\* False changes neither the capital, the positions nor the trade history.
C28_Accounting ==
    /\ [](/\ bt_capital >= 0
          /\ bt_capital + SumCost(bt_positions, DOMAIN bt_positions)
                = bt_initial_capital + SumPnl(trade_history))
    /\ [][(bt_calls' = bt_calls + 1 /\ ~bt_result') =>
             UNCHANGED <<bt_capital, bt_positions, trade_history>>]_vars

=============================================================================
